---- MODULE Spec2Model ----
(***************************************************************************)
(* A model of the Alexa skill handler of lambda/lambda_function.py: the    *)
(* per-session chat history, the completion client, the capability probe,  *)
(* the APL directive builder and the response each handler produces.       *)
(*                                                                         *)
(* A text is a sequence of string fragments, so that concatenation         *)
(* (f-strings), SSML wrapping and strip() are computed, not assumed.       *)
(* An optional value (Python None or a value) is <<>> or <<value>>.        *)
(***************************************************************************)
EXTENDS Integers, Sequences, FiniteSets, TLC

VARIABLES
    apiKey,   \* config.OPENAI_API_KEY, fixed when the module is loaded
    attrs,    \* session id -> the session attribute store (key chat_history)
    pre,      \* attrs as it was when the last event arrived
    ev,       \* the last inbound event (request envelope)
    branch,   \* "handler" or "exception": who produced the last response
    resp,     \* the last OutboundResponse
    sent,     \* message lists posted to the completion service by the last event
    reply,    \* what generate_gpt_response returned to the last event, if called
    asked,    \* session id -> (question, reply) of the question events handled
              \* since the session's last Launch, in arrival order
    aplBuildFails \* whether the try block of create_apl_directive raises

vars == <<apiKey, attrs, pre, ev, branch, resp, sent, reply, asked, aplBuildFails>>

----------------------------------------------------------------------------
(* Bounds of the exploration *)

MaxTurns == 2      \* Spec: question events accepted per history
MaxLongTurns == 7  \* SpecLong: question events accepted per history
MaxFailures == 1   \* SpecLong: soft failures of the completion service per history

(* Program constants *)

HistoryWindow == 5 \* chat_history[-5:]

----------------------------------------------------------------------------
(* Optional values and texts *)

None == <<>>
Some(x) == <<x>>
Val(o) == o[1]

Min(a, b) == IF a <= b THEN a ELSE b

Whitespace == {" ", "\n"}

RECURSIVE LStrip(_)
LStrip(t) ==
    IF t # <<>> /\ Head(t) \in Whitespace THEN LStrip(Tail(t)) ELSE t

RECURSIVE RStrip(_)
RStrip(t) ==
    IF t # <<>> /\ t[Len(t)] \in Whitespace
    THEN RStrip(SubSeq(t, 1, Len(t) - 1))
    ELSE t

\* str.strip()
Strip(t) == RStrip(LStrip(t))

\* chat_history[-n:]
LastN(h, n) == SubSeq(h, Len(h) - Min(Len(h), n) + 1, Len(h))

----------------------------------------------------------------------------
(* Inputs *)

SessionIds == {"s1"}

ApiKeys == {"", "YOUR_API_KEY", "sk-configured"}

Queries == {<<"q1">>, <<"q2">>}

\* The device context of a request envelope, by how much of the path
\* context.system.device.supported_interfaces it carries.
Contexts ==
    {"no_context", "no_system", "no_device", "no_interfaces",
     "interfaces_without_apl", "interfaces_with_apl"}

\* What requests.post does: a success response with a body, a non-success
\* status, a transport exception, a timeout, or a success response whose
\* body cannot be parsed.
RawBodies == {<<"a1">>, <<" ", "a1", "\n">>}
NoOutcome == [kind |-> "none", body |-> <<>>]
Outcomes ==
    {[kind |-> "ok", body |-> b] : b \in RawBodies}
    \cup {[kind |-> k, body |-> <<>>] :
            k \in {"http_error", "transport_exception", "timeout", "bad_body"}}

----------------------------------------------------------------------------
(* get_api_key *)

Return(v) == [kind |-> "return", value |-> v]
Raise(e) == [kind |-> "raise", value |-> <<e>>]

get_api_key(key) ==
    IF key = "" \/ key = "YOUR_API_KEY"
    THEN Raise("ValueError")
    ELSE Return(<<key>>)

----------------------------------------------------------------------------
(* supports_apl *)

\* Evaluating handler_input.request_envelope.context.system.device
\* .supported_interfaces: an AttributeError when an object on the path is None.
SupportedInterfacesOf(ctx) ==
    IF ctx \in {"no_context", "no_system", "no_device"}
    THEN Raise("AttributeError")
    ELSE Return(<<ctx>>)

\* hasattr(supported_interfaces, 'alexa_presentation_apl'): the SDK's
\* SupportedInterfaces object always has the attribute (None when the device
\* declares no APL); None itself has not.
HasAplAttribute(si) == si # "no_interfaces"

\* A probe whose except clause reports support.
supports_apl_except_true(ctx) ==
    LET si == SupportedInterfacesOf(ctx)
    IN  IF si.kind = "raise" THEN TRUE ELSE HasAplAttribute(Val(si.value))

supports_apl(ctx) ==
    LET si == SupportedInterfacesOf(ctx)
    IN  IF si.kind = "raise" THEN FALSE ELSE HasAplAttribute(Val(si.value))

----------------------------------------------------------------------------
(* create_apl_directive *)

AplDocument == "APL 1.5 dark: Container > Sequence(titleText, primaryText, secondaryText)"

\* try: build and return the directive when the device supports APL, else
\* None; except Exception: return None.
create_apl_directive(ctx, title, primary_text, secondary_text) ==
    IF supports_apl(ctx)
    THEN IF aplBuildFails THEN None ELSE
         Some([token |-> "token",
               document |-> AplDocument,
               datasources |->
                   <<[titleText |-> title,
                      primaryText |-> primary_text,
                      secondaryText |->
                          IF secondary_text = None THEN <<>> ELSE Val(secondary_text)]>>])
    ELSE None

----------------------------------------------------------------------------
(* generate_gpt_response *)

SystemPrompt ==
    <<"You are a helpful assistant. Provide clear, concise answers. Keep responses under 50 words.">>
ConnectionTrouble == <<"I'm having trouble connecting right now. Please try again.">>
ProcessingError == <<"I encountered an error processing your request.">>

Msg(role, content) == [role |-> role, content |-> content]

RECURSIVE TurnMessages(_)
TurnMessages(turns) ==
    IF turns = <<>> THEN <<>>
    ELSE <<Msg("user", Head(turns)[1]), Msg("assistant", Head(turns)[2])>>
         \o TurnMessages(Tail(turns))

\* A request built from the whole history, not from its last turns.
BuildMessagesUnwindowed(chat_history, new_question) ==
    <<Msg("system", SystemPrompt)>>
    \o TurnMessages(chat_history)
    \o <<Msg("user", new_question)>>

BuildMessages(chat_history, new_question) ==
    <<Msg("system", SystemPrompt)>>
    \o TurnMessages(LastN(chat_history, HistoryWindow))
    \o <<Msg("user", new_question)>>

\* A try block that posts the request again when the first attempt fails.
CompletionTryRetry(key, chat_history, new_question, outcome) ==
    LET k == get_api_key(key)
        messages == BuildMessages(chat_history, new_question)
    IN  IF k.kind = "raise"
        THEN [kind |-> "raise", value |-> <<>>, posted |-> <<>>]
        ELSE IF outcome.kind = "ok"
        THEN [kind |-> "return", value |-> Strip(outcome.body), posted |-> <<messages>>]
        ELSE IF outcome.kind = "http_error"
        THEN [kind |-> "return", value |-> ConnectionTrouble,
              posted |-> <<messages, messages>>]
        ELSE [kind |-> "raise", value |-> <<>>, posted |-> <<messages, messages>>]

\* A try block that raises on a non-success status (raise_for_status).
CompletionTryRaiseForStatus(key, chat_history, new_question, outcome) ==
    LET k == get_api_key(key)
        messages == BuildMessages(chat_history, new_question)
    IN  IF k.kind = "raise"
        THEN [kind |-> "raise", value |-> <<>>, posted |-> <<>>]
        ELSE IF outcome.kind = "ok"
        THEN [kind |-> "return", value |-> Strip(outcome.body), posted |-> <<messages>>]
        ELSE [kind |-> "raise", value |-> <<>>, posted |-> <<messages>>]

\* The body of the try block: the value returned or the exception raised,
\* and the requests posted on the way.
CompletionTry(key, chat_history, new_question, outcome) ==
    LET k == get_api_key(key)
        messages == BuildMessages(chat_history, new_question)
    IN  IF k.kind = "raise"
        THEN [kind |-> "raise", value |-> <<>>, posted |-> <<>>]
        ELSE IF outcome.kind \in {"transport_exception", "timeout"}
        THEN [kind |-> "raise", value |-> <<>>, posted |-> <<messages>>]
        ELSE IF outcome.kind = "ok"
        THEN [kind |-> "return", value |-> Strip(outcome.body), posted |-> <<messages>>]
        ELSE IF outcome.kind = "bad_body"
        THEN [kind |-> "raise", value |-> <<>>, posted |-> <<messages>>]
        ELSE [kind |-> "return", value |-> ConnectionTrouble, posted |-> <<messages>>]

\* A client without the except clause: exceptions reach the handler.
generate_gpt_response_uncaught(key, chat_history, new_question, outcome) ==
    CompletionTry(key, chat_history, new_question, outcome)

\* try ... except Exception: return the processing-error string.
generate_gpt_response(key, chat_history, new_question, outcome) ==
    LET t == CompletionTry(key, chat_history, new_question, outcome)
    IN  IF t.kind = "raise"
        THEN [kind |-> "return", value |-> ProcessingError, posted |-> t.posted]
        ELSE t

----------------------------------------------------------------------------
(* The response builder of the SDK, as the handlers use it *)

EmptyResponse ==
    [output_speech |-> None, reprompt |-> None, should_end_session |-> None,
     card |-> None, directives |-> <<>>]

\* "<speak>{}</speak>".format(trimmed speech)
Ssml(t) == <<"<speak>">> \o Strip(t) \o <<"</speak>">>

Speak(r, t) == [r EXCEPT !.output_speech = Some(Ssml(t))]

\* ask() sets the re-prompt and, no video directive being present,
\* should_end_session = False.
Ask(r, t) == [r EXCEPT !.reprompt = Some(Ssml(t)), !.should_end_session = Some(FALSE)]

SetShouldEndSession(r, b) == [r EXCEPT !.should_end_session = Some(b)]

Card(type, title, text) == [type |-> type, title |-> title, text |-> text]

SetCard(r, c) == [r EXCEPT !.card = Some(c)]

AddDirective(r, d) == [r EXCEPT !.directives = Append(@, d)]

\* A handler that asks the builder without probing the device first.
WithAplUnprobed(r, ctx, title, primary_text, secondary_text) ==
    AddDirective(r, [token |-> "token", document |-> AplDocument,
                     datasources |-> <<[titleText |-> title,
                                        primaryText |-> primary_text,
                                        secondaryText |-> secondary_text]>>])

\* A handler that adds whatever the builder returned, None included.
WithAplUnchecked(r, ctx, title, primary_text, secondary_text) ==
    IF supports_apl(ctx)
    THEN AddDirective(r, create_apl_directive(ctx, title, primary_text,
                                              Some(secondary_text)))
    ELSE r

\* if supports_apl(handler_input): directive = create_apl_directive(...);
\* if directive: rb.add_directive(directive)
WithApl(r, ctx, title, primary_text, secondary_text) ==
    IF supports_apl(ctx)
    THEN LET directive == create_apl_directive(ctx, title, primary_text, Some(secondary_text))
         IN  IF directive # None THEN AddDirective(r, Val(directive)) ELSE r
    ELSE r

----------------------------------------------------------------------------
(* The responses of the handlers *)

AskAnother == <<"Would you like to ask another question?">>

LaunchResponse(ctx) ==
    LET speak_output == <<"Chat G.P.T. mode activated">>
        rb == SetCard(Ask(Speak(EmptyResponse, speak_output), speak_output),
                      Card("StandardCard", <<"Welcome to ChatGPT">>,
                           <<"ChatGPT Mode is now active.\n\nYou can ask me any question!\n\nI'm ready to help you find answers.">>))
    IN  WithApl(rb, ctx, <<"Welcome to ChatGPT">>,
                <<"ChatGPT Mode is now active.\n\nYou can ask me any question!">>,
                <<"I'm ready to help you find answers.">>)

\* An answer that is spoken without a re-prompt.
GptQueryResponseNoAsk(ctx, query, response) ==
    LET speak_output == response \o <<" ">> \o AskAnother
        rb == SetCard(Speak(EmptyResponse, speak_output),
                      Card("StandardCard", <<"ChatGPT Response">>,
                           <<"Question:\n">> \o query \o <<"\n\nAnswer:\n">> \o response
                           \o <<"\n\n">> \o AskAnother))
    IN  WithApl(rb, ctx, <<"ChatGPT Response">>,
                <<"Question:\n">> \o query \o <<"\n\nAnswer:\n">> \o response,
                AskAnother)

GptQueryResponse(ctx, query, response) ==
    LET speak_output == response \o <<" ">> \o AskAnother
        rb == SetCard(Ask(Speak(EmptyResponse, speak_output), AskAnother),
                      Card("StandardCard", <<"ChatGPT Response">>,
                           <<"Question:\n">> \o query \o <<"\n\nAnswer:\n">> \o response
                           \o <<"\n\n">> \o AskAnother))
    IN  WithApl(rb, ctx, <<"ChatGPT Response">>,
                <<"Question:\n">> \o query \o <<"\n\nAnswer:\n">> \o response,
                AskAnother)

YesResponse(ctx) ==
    LET speak_output == <<"What would you like to know?">>
        rb == SetCard(Ask(Speak(EmptyResponse, speak_output), speak_output),
                      Card("SimpleCard", <<"Ask Another Question">>,
                           <<"What would you like to know?">>))
    IN  WithApl(rb, ctx, <<"Ask Another Question">>,
                <<"What would you like to know?">>, <<"I'm ready to help!">>)

NoResponse(ctx) ==
    LET speak_output == <<"Thanks for chatting! Goodbye.">>
        rb == SetCard(SetShouldEndSession(Speak(EmptyResponse, speak_output), TRUE),
                      Card("SimpleCard", <<"Goodbye">>,
                           <<"Thanks for chatting! Have a great day!">>))
    IN  WithApl(rb, ctx, <<"Goodbye">>, <<"Thanks for chatting!">>, <<"Have a great day!">>)

HelpResponse(ctx) ==
    LET speak_output ==
            <<"You can ask me any question, and I'll use ChatGPT to provide an answer. Just speak your question clearly.">>
        rb == SetCard(Ask(Speak(EmptyResponse, speak_output), speak_output),
                      Card("SimpleCard", <<"Help with ChatGPT">>, speak_output))
    IN  WithApl(rb, ctx, <<"How to Use ChatGPT">>,
                <<"You can ask me any question, and I'll use ChatGPT to provide an answer.">>,
                <<"Just speak your question clearly.">>)

\* A farewell that re-prompts instead of ending the session.
CancelOrStopResponseOpen(ctx) ==
    LET speak_output == <<"Leaving Chat G.P.T. mode">>
        rb == SetCard(Ask(Speak(EmptyResponse, speak_output), speak_output),
                      Card("SimpleCard", <<"Goodbye">>,
                           <<"Leaving ChatGPT Mode. Thanks for chatting!">>))
    IN  WithApl(rb, ctx, <<"Goodbye">>, <<"Leaving ChatGPT Mode">>, <<"Thanks for chatting!">>)

CancelOrStopResponse(ctx) ==
    LET speak_output == <<"Leaving Chat G.P.T. mode">>
        rb == SetCard(SetShouldEndSession(Speak(EmptyResponse, speak_output), TRUE),
                      Card("SimpleCard", <<"Goodbye">>,
                           <<"Leaving ChatGPT Mode. Thanks for chatting!">>))
    IN  WithApl(rb, ctx, <<"Goodbye">>, <<"Leaving ChatGPT Mode">>, <<"Thanks for chatting!">>)

FallbackResponse(ctx) ==
    LET speak_output ==
            <<"I'm not sure what you're asking. You can ask me any question, and I'll try to provide an answer using ChatGPT.">>
        rb == SetCard(Ask(Speak(EmptyResponse, speak_output), speak_output),
                      Card("SimpleCard", <<"I Didn't Understand">>, speak_output))
    IN  WithApl(rb, ctx, <<"I Didn't Understand">>,
                <<"I'm not sure what you're asking.">>,
                <<"You can ask me any question, and I'll try to provide an answer using ChatGPT.">>)

\* The handler sets nothing on the response builder.
SessionEndedResponse == EmptyResponse

\* An apology that is spoken but sets no card.
CatchAllExceptionResponseNoCard(ctx) ==
    LET speak_output == <<"Sorry, I had trouble doing what you asked. Please try again.">>
        rb == Ask(Speak(EmptyResponse, speak_output), speak_output)
    IN  WithApl(rb, ctx, <<"Error Occurred">>,
                <<"Sorry, I had trouble doing what you asked.">>, <<"Please try again.">>)

CatchAllExceptionResponse(ctx) ==
    LET speak_output == <<"Sorry, I had trouble doing what you asked. Please try again.">>
        rb == SetCard(Ask(Speak(EmptyResponse, speak_output), speak_output),
                      Card("SimpleCard", <<"Error Occurred">>,
                           <<"Sorry, I had trouble doing what you asked. Please try again.">>))
    IN  WithApl(rb, ctx, <<"Error Occurred">>,
                <<"Sorry, I had trouble doing what you asked.">>, <<"Please try again.">>)

----------------------------------------------------------------------------
(* The session attribute store *)

NoAttributes == [present |-> FALSE, chat_history |-> <<>>]

\* A launch that creates the history only when the key is absent.
ResetHistoryIfAbsent(store) ==
    IF store.present THEN store ELSE [present |-> TRUE, chat_history |-> <<>>]

\* session_attributes["chat_history"] = []
ResetHistory(store) == [present |-> TRUE, chat_history |-> <<>>]

\* session_attr.get("chat_history", []): a default list the store never holds.
SetDefaultHistoryGet(store) == store

\* session_attr.setdefault("chat_history", [])
SetDefaultHistory(store) ==
    IF store.present THEN store ELSE [present |-> TRUE, chat_history |-> <<>>]

\* A history that keeps only the window the completion request reads.
AppendTurnWindowed(store, query, response) ==
    [store EXCEPT !.chat_history = LastN(Append(@, <<query, response>>), HistoryWindow)]

\* A history that keeps a turn only when the service answered.
AppendTurnUnlessDegraded(store, query, response) ==
    IF response \in {ConnectionTrouble, ProcessingError}
    THEN store
    ELSE [store EXCEPT !.chat_history = Append(@, <<query, response>>)]

\* chat_history.append((query, response))
AppendTurn(store, query, response) ==
    [store EXCEPT !.chat_history = Append(@, <<query, response>>)]

DegradedReplies == {ConnectionTrouble, ProcessingError}

Failures(h) == Cardinality({i \in 1..Len(h) : h[i][2] \in DegradedReplies})

----------------------------------------------------------------------------
(* Events and the dispatch of one event to its handler *)

Event(type, s, ctx, query, outcome, error) ==
    [type |-> type, session |-> s, ctx |-> ctx, query |-> query,
     outcome |-> outcome, error |-> error]

NoEvent == Event("none", "none", "no_context", None, NoOutcome, FALSE)

\* A handler that creates the history key whatever the event.
AnsweredCreatingKey(e, r, b) ==
    /\ ev' = e
    /\ resp' = r
    /\ branch' = b
    /\ pre' = attrs
    /\ sent' = <<>>
    /\ reply' = None
    /\ attrs' = [attrs EXCEPT ![e.session] =
                    IF @.present THEN @ ELSE [present |-> TRUE, chat_history |-> <<>>]]
    /\ UNCHANGED <<apiKey, asked, aplBuildFails>>

\* An event that leaves the attribute store alone and calls no service.
Answered(e, r, b) ==
    /\ ev' = e
    /\ resp' = r
    /\ branch' = b
    /\ pre' = attrs
    /\ sent' = <<>>
    /\ reply' = None
    /\ UNCHANGED <<apiKey, attrs, asked, aplBuildFails>>

\* An exception handler registered for one exception type.
CanHandleOnlyValueError(exception) == exception = "ValueError"

\* CatchAllExceptionHandler.can_handle
CanHandleException(exception) == TRUE

\* A handler that raises after it has created the history key.
CaughtAfterSetDefault(e, ctx, exception) ==
    /\ ev' = e
    /\ resp' = CatchAllExceptionResponse(ctx)
    /\ branch' = "exception"
    /\ pre' = attrs
    /\ sent' = <<>>
    /\ reply' = None
    /\ attrs' = [attrs EXCEPT ![e.session] =
                    IF @.present THEN @ ELSE [present |-> TRUE, chat_history |-> <<>>]]
    /\ UNCHANGED <<apiKey, asked, aplBuildFails>>

\* An event whose handling raised before anything was written: the
\* exception handler answers when it accepts the exception, and the
\* exception leaves the skill otherwise.
Caught(e, ctx, exception) ==
    IF CanHandleException(exception)
    THEN Answered(e, CatchAllExceptionResponse(ctx), "exception")
    ELSE Answered(e, EmptyResponse, "escaped")

\* One history for the whole module, not one per session.
PutAttributesShared(a, s, store) == [x \in DOMAIN a |-> store]

\* The session attributes the handler of an event of session s writes.
PutAttributes(a, s, store) == [a EXCEPT ![s] = store]

InitWith(sessions, faults) ==
    /\ apiKey \in ApiKeys
    /\ attrs = [s \in sessions |-> NoAttributes]
    /\ pre = attrs
    /\ ev = NoEvent
    /\ branch = "none"
    /\ resp = EmptyResponse
    /\ sent = <<>>
    /\ reply = None
    /\ asked = [s \in sessions |-> <<>>]
    /\ aplBuildFails \in faults

Init == InitWith(SessionIds, {FALSE})

LaunchRequest(s, ctx) ==
    /\ ev' = Event("LaunchRequest", s, ctx, None, NoOutcome, FALSE)
    /\ attrs' = PutAttributes(attrs, s, ResetHistory(attrs[s]))
    /\ resp' = LaunchResponse(ctx)
    /\ branch' = "handler"
    /\ pre' = attrs
    /\ sent' = <<>>
    /\ reply' = None
    /\ asked' = [asked EXCEPT ![s] = <<>>]
    /\ UNCHANGED <<apiKey, aplBuildFails>>

\* slots["query"] raises when the intent carries no such slot: the
\* exception handler answers and nothing else has happened.
GptQueryIntent(s, ctx, slot, outcome) ==
    LET e == Event("GptQueryIntent", s, ctx, slot, outcome, FALSE)
    IN  IF slot = None
        THEN Caught(e, ctx, "KeyError")
        ELSE LET query == Val(slot)
                 session_attr == SetDefaultHistory(attrs[s])
                 g == generate_gpt_response(apiKey, session_attr.chat_history,
                                            query, outcome)
             IN  /\ ev' = e
                 /\ pre' = attrs
                 /\ sent' = g.posted
                 /\ UNCHANGED <<apiKey, aplBuildFails>>
                 /\ IF g.kind = "raise"
                    THEN \* setdefault has run, append has not
                         /\ attrs' = PutAttributes(attrs, s, session_attr)
                         /\ resp' = IF CanHandleException("Exception")
                                    THEN CatchAllExceptionResponse(ctx)
                                    ELSE EmptyResponse
                         /\ branch' = IF CanHandleException("Exception")
                                      THEN "exception" ELSE "escaped"
                         /\ reply' = None
                         /\ UNCHANGED asked
                    ELSE /\ attrs' = PutAttributes(attrs, s,
                                        AppendTurn(session_attr, query, g.value))
                         /\ resp' = GptQueryResponse(ctx, query, g.value)
                         /\ branch' = "handler"
                         /\ reply' = Some(g.value)
                         /\ asked' = [asked EXCEPT ![s] = Append(@, <<query, g.value>>)]

YesIntent(s, ctx) ==
    Answered(Event("AMAZON.YesIntent", s, ctx, None, NoOutcome, FALSE),
             YesResponse(ctx), "handler")

NoIntent(s, ctx) ==
    Answered(Event("AMAZON.NoIntent", s, ctx, None, NoOutcome, FALSE),
             NoResponse(ctx), "handler")

HelpIntent(s, ctx) ==
    Answered(Event("AMAZON.HelpIntent", s, ctx, None, NoOutcome, FALSE),
             HelpResponse(ctx), "handler")

CancelOrStopIntent(s, ctx, name) ==
    Answered(Event(name, s, ctx, None, NoOutcome, FALSE),
             CancelOrStopResponse(ctx), "handler")

FallbackIntent(s, ctx) ==
    Answered(Event("AMAZON.FallbackIntent", s, ctx, None, NoOutcome, FALSE),
             FallbackResponse(ctx), "handler")

\* json.dumps(error.__dict__) raises a TypeError on the error's enum-typed
\* field when the request carries error details.
SessionEndedRequest(s, ctx, error) ==
    LET e == Event("SessionEndedRequest", s, ctx, None, NoOutcome, error)
    IN  IF error
        THEN Caught(e, ctx, "TypeError")
        ELSE Answered(e, SessionEndedResponse, "handler")

\* A request no registered handler accepts: the dispatcher raises and the
\* exception handler answers.
UnhandledRequest(s, ctx) ==
    Caught(Event("UnhandledRequest", s, ctx, None, NoOutcome, FALSE), ctx,
           "DispatchException")

\* The exploration accepts a question while the history is short enough and,
\* for a failing service call, while the history holds few enough failures.
WithinBounds(s, slot, outcome, turns, failures) ==
    slot # None =>
        /\ Len(attrs[s].chat_history) < turns
        /\ outcome.kind # "ok" => Failures(attrs[s].chat_history) < failures

Slots == {None} \cup {Some(q) : q \in Queries}

StopNames == {"AMAZON.CancelIntent", "AMAZON.StopIntent"}

\* Every event, every device context, every behaviour of the service, on
\* short histories.
Next ==
    \/ \E s \in DOMAIN attrs, ctx \in Contexts : LaunchRequest(s, ctx)
    \/ \E s \in DOMAIN attrs, ctx \in Contexts, slot \in Slots, outcome \in Outcomes :
           /\ WithinBounds(s, slot, outcome, MaxTurns, MaxTurns)
           /\ GptQueryIntent(s, ctx, slot, outcome)
    \/ \E s \in DOMAIN attrs, ctx \in Contexts : YesIntent(s, ctx)
    \/ \E s \in DOMAIN attrs, ctx \in Contexts : NoIntent(s, ctx)
    \/ \E s \in DOMAIN attrs, ctx \in Contexts : HelpIntent(s, ctx)
    \/ \E s \in DOMAIN attrs, ctx \in Contexts, name \in StopNames :
           CancelOrStopIntent(s, ctx, name)
    \/ \E s \in DOMAIN attrs, ctx \in Contexts : FallbackIntent(s, ctx)
    \/ \E s \in DOMAIN attrs, ctx \in Contexts, error \in BOOLEAN :
           SessionEndedRequest(s, ctx, error)
    \/ \E s \in DOMAIN attrs, ctx \in Contexts : UnhandledRequest(s, ctx)

Spec == Init /\ [][Next]_vars

\* Every event on histories longer than the window, from one device.
LongContexts == {"interfaces_with_apl"}
LongOutcomes ==
    {[kind |-> "ok", body |-> <<" ", "a1", "\n">>]}
    \cup {[kind |-> "http_error", body |-> <<>>]}

NextLong ==
    \/ \E s \in DOMAIN attrs, ctx \in LongContexts : LaunchRequest(s, ctx)
    \/ \E s \in DOMAIN attrs, ctx \in LongContexts, slot \in Slots, outcome \in LongOutcomes :
           /\ WithinBounds(s, slot, outcome, MaxLongTurns, MaxFailures)
           /\ GptQueryIntent(s, ctx, slot, outcome)
    \/ \E s \in DOMAIN attrs, ctx \in LongContexts : YesIntent(s, ctx)
    \/ \E s \in DOMAIN attrs, ctx \in LongContexts : NoIntent(s, ctx)
    \/ \E s \in DOMAIN attrs, ctx \in LongContexts : HelpIntent(s, ctx)
    \/ \E s \in DOMAIN attrs, ctx \in LongContexts, name \in StopNames :
           CancelOrStopIntent(s, ctx, name)
    \/ \E s \in DOMAIN attrs, ctx \in LongContexts : FallbackIntent(s, ctx)
    \/ \E s \in DOMAIN attrs, ctx \in LongContexts, error \in BOOLEAN :
           SessionEndedRequest(s, ctx, error)
    \/ \E s \in DOMAIN attrs, ctx \in LongContexts : UnhandledRequest(s, ctx)

SpecLong == Init /\ [][NextLong]_vars

\* Two sessions whose events interleave, from one device, the service
\* answering every request.
TwoSessionIds == {"s1", "s2"}
TwoOutcomes == {[kind |-> "ok", body |-> <<" ", "a1", "\n">>]}

InitTwo == InitWith(TwoSessionIds, {FALSE})

NextTwo ==
    \/ \E s \in DOMAIN attrs, ctx \in LongContexts : LaunchRequest(s, ctx)
    \/ \E s \in DOMAIN attrs, ctx \in LongContexts, slot \in Slots, outcome \in TwoOutcomes :
           /\ WithinBounds(s, slot, outcome, MaxTurns, MaxTurns)
           /\ GptQueryIntent(s, ctx, slot, outcome)
    \/ \E s \in DOMAIN attrs, ctx \in LongContexts : YesIntent(s, ctx)
    \/ \E s \in DOMAIN attrs, ctx \in LongContexts : NoIntent(s, ctx)
    \/ \E s \in DOMAIN attrs, ctx \in LongContexts : HelpIntent(s, ctx)
    \/ \E s \in DOMAIN attrs, ctx \in LongContexts, name \in StopNames :
           CancelOrStopIntent(s, ctx, name)
    \/ \E s \in DOMAIN attrs, ctx \in LongContexts : FallbackIntent(s, ctx)
    \/ \E s \in DOMAIN attrs, ctx \in LongContexts, error \in BOOLEAN :
           SessionEndedRequest(s, ctx, error)
    \/ \E s \in DOMAIN attrs, ctx \in LongContexts : UnhandledRequest(s, ctx)

SpecTwo == InitTwo /\ [][NextTwo]_vars

\* Every event from every device, with a directive builder that may fail.
InitFault == InitWith(SessionIds, BOOLEAN)

NextFault ==
    \/ \E s \in DOMAIN attrs, ctx \in Contexts : LaunchRequest(s, ctx)
    \/ \E s \in DOMAIN attrs, ctx \in Contexts, slot \in Slots, outcome \in LongOutcomes :
           /\ WithinBounds(s, slot, outcome, MaxTurns, MaxTurns)
           /\ GptQueryIntent(s, ctx, slot, outcome)
    \/ \E s \in DOMAIN attrs, ctx \in Contexts : YesIntent(s, ctx)
    \/ \E s \in DOMAIN attrs, ctx \in Contexts : NoIntent(s, ctx)
    \/ \E s \in DOMAIN attrs, ctx \in Contexts : HelpIntent(s, ctx)
    \/ \E s \in DOMAIN attrs, ctx \in Contexts, name \in StopNames :
           CancelOrStopIntent(s, ctx, name)
    \/ \E s \in DOMAIN attrs, ctx \in Contexts : FallbackIntent(s, ctx)
    \/ \E s \in DOMAIN attrs, ctx \in Contexts, error \in BOOLEAN :
           SessionEndedRequest(s, ctx, error)
    \/ \E s \in DOMAIN attrs, ctx \in Contexts : UnhandledRequest(s, ctx)

SpecFault == InitFault /\ [][NextFault]_vars

\* One question asked again and again on histories longer than the window,
\* from one device, with a service that may fail in each of its ways.
DegradedSlots == {None, Some(<<"q1">>)}
DegradedOutcomes ==
    {[kind |-> "ok", body |-> <<" ", "a1", "\n">>]}
    \cup {[kind |-> k, body |-> <<>>] :
            k \in {"http_error", "transport_exception", "timeout"}}

NextDegraded ==
    \/ \E s \in DOMAIN attrs, ctx \in LongContexts : LaunchRequest(s, ctx)
    \/ \E s \in DOMAIN attrs, ctx \in LongContexts, slot \in DegradedSlots,
          outcome \in DegradedOutcomes :
           /\ WithinBounds(s, slot, outcome, MaxLongTurns, MaxFailures)
           /\ GptQueryIntent(s, ctx, slot, outcome)
    \/ \E s \in DOMAIN attrs, ctx \in LongContexts : YesIntent(s, ctx)
    \/ \E s \in DOMAIN attrs, ctx \in LongContexts : NoIntent(s, ctx)
    \/ \E s \in DOMAIN attrs, ctx \in LongContexts : HelpIntent(s, ctx)
    \/ \E s \in DOMAIN attrs, ctx \in LongContexts, name \in StopNames :
           CancelOrStopIntent(s, ctx, name)
    \/ \E s \in DOMAIN attrs, ctx \in LongContexts : FallbackIntent(s, ctx)
    \/ \E s \in DOMAIN attrs, ctx \in LongContexts, error \in BOOLEAN :
           SessionEndedRequest(s, ctx, error)
    \/ \E s \in DOMAIN attrs, ctx \in LongContexts : UnhandledRequest(s, ctx)

SpecDegraded == Init /\ [][NextDegraded]_vars

----------------------------------------------------------------------------
(* Properties *)

History(s) == attrs[s].chat_history
HistoryBefore(s) == pre[s].chat_history

IsQuestion == ev.type = "GptQueryIntent" /\ ev.query # None
EndingEvents == {"AMAZON.NoIntent", "AMAZON.CancelIntent", "AMAZON.StopIntent"}
OpenEvents ==
    {"LaunchRequest", "GptQueryIntent", "AMAZON.YesIntent", "AMAZON.HelpIntent",
     "AMAZON.FallbackIntent"}

\* A text with at least one non-empty fragment.
NonEmptyText(t) == \E i \in 1..Len(t) : t[i] # ""

\* C1: in every session the chat history is exactly the sequence of
\* (question, reply) pairs of the question events handled since the last
\* Launch, in arrival order: each question event appends one turn at the end
\* and nothing changes, removes, reorders or deduplicates the earlier turns,
\* also beyond 5 turns.
C1_HistoryIsQuestionsInArrivalOrder ==
    \A s \in DOMAIN attrs : History(s) = asked[s]

\* More than 5 turns, two of them equal, with an event that is no question
\* arriving last.
C1_Witness ==
    \E s \in DOMAIN attrs :
        /\ Len(History(s)) > 5
        /\ \E i, j \in 1..Len(History(s)) : i < j /\ History(s)[i] = History(s)[j]
        /\ ev.type = "AMAZON.FallbackIntent"
        /\ ev.session = s

\* C2: the message list a question event posts is one system message, then
\* the last min(N,5) turns of the history as it was when the event arrived,
\* oldest first, each as a user message and an assistant message, then the
\* new question as the last user message: 2*min(N,5)+2 messages.
C2_RequestIsWindowOfHistory ==
    \A r \in 1..Len(sent) :
        LET h == HistoryBefore(ev.session)
            n == Min(Len(h), 5)
            m == sent[r]
        IN  /\ Len(m) = 2 * n + 2
            /\ m[1].role = "system"
            /\ \A j \in 1..n :
                   /\ m[2 * j] = [role |-> "user", content |-> h[Len(h) - n + j][1]]
                   /\ m[2 * j + 1] =
                          [role |-> "assistant", content |-> h[Len(h) - n + j][2]]
            /\ m[2 * n + 2] = [role |-> "user", content |-> Val(ev.query)]

\* A request posted from a history of more than 5 turns whose oldest turn
\* differs from every turn of the window.
C2_Witness ==
    /\ IsQuestion
    /\ Len(sent) = 1
    /\ LET h == HistoryBefore(ev.session)
       IN  /\ Len(h) > 5
           /\ \A i \in 2..Len(h) : h[i] # h[1]

\* C3: after a Launch event the session's chat_history exists and is empty,
\* whatever it held before.
C3_LaunchEmptiesHistory ==
    ev.type = "LaunchRequest" =>
        /\ attrs[ev.session].present
        /\ History(ev.session) = <<>>

\* A Launch arriving in mid-session, on a history that holds turns.
C3_Witness ==
    /\ ev.type = "LaunchRequest"
    /\ HistoryBefore(ev.session) # <<>>
    /\ History(ev.session) = <<>>

\* C4 as stated: Decline and Cancel/Stop answer with end-session = true and
\* every other event type, Session-ended included, with end-session = false.
C4_Original ==
    ev.type # "none" =>
        IF branch = "handler" /\ ev.type \in EndingEvents
        THEN resp.should_end_session = Some(TRUE)
        ELSE resp.should_end_session = Some(FALSE)

\* C4, amended: Decline and Cancel/Stop answer with end-session = true;
\* Launch, question, Affirm, Help, Fallback and the exception branch answer
\* with end-session = false; the Session-ended handler leaves the flag unset.
C4_EndSessionFlag ==
    /\ branch = "handler" /\ ev.type \in EndingEvents =>
           resp.should_end_session = Some(TRUE)
    /\ branch = "handler" /\ ev.type \in OpenEvents =>
           resp.should_end_session = Some(FALSE)
    /\ branch = "exception" => resp.should_end_session = Some(FALSE)
    /\ branch = "handler" /\ ev.type = "SessionEndedRequest" =>
           resp.should_end_session = None

\* A Stop event answered with end-session = true.
C4_Witness ==
    /\ ev.type = "AMAZON.StopIntent"
    /\ branch = "handler"
    /\ resp.should_end_session = Some(TRUE)

\* C5: with the API credential absent or equal to the placeholder, a
\* question event gets no reply string from the Completion Client: no
\* degraded message is spoken and no turn is appended to chat_history.
C5_ConfigurationErrorIsRaised ==
    IsQuestion /\ apiKey \in {"", "YOUR_API_KEY"} =>
        /\ reply = None
        /\ branch = "exception"
        /\ History(ev.session) = HistoryBefore(ev.session)

\* C6: when the completion service answers with a non-success status the
\* Completion Client returns the "connection trouble" string and does not
\* raise.
C6_HttpErrorGivesConnectionTrouble ==
    IsQuestion /\ sent # <<>> /\ ev.outcome.kind = "http_error" =>
        /\ reply = Some(<<"I'm having trouble connecting right now. Please try again.">>)
        /\ branch = "handler"

\* A non-success status answering a request that carried earlier turns.
C6_Witness ==
    /\ IsQuestion
    /\ sent # <<>>
    /\ ev.outcome.kind = "http_error"
    /\ HistoryBefore(ev.session) # <<>>
    /\ reply # None

\* C7: when the network call raises or times out, or a success response
\* cannot be parsed, the Completion Client returns the "processing error"
\* string, which is not the "connection trouble" string, and does not raise.
C7_ExceptionGivesProcessingError ==
    IsQuestion /\ sent # <<>>
        /\ ev.outcome.kind \in {"transport_exception", "timeout", "bad_body"} =>
        /\ reply = Some(<<"I encountered an error processing your request.">>)
        /\ reply # Some(ConnectionTrouble)
        /\ branch = "handler"

\* A timeout of a request that carried earlier turns.
C7_Witness ==
    /\ IsQuestion
    /\ sent # <<>>
    /\ ev.outcome.kind = "timeout"
    /\ HistoryBefore(ev.session) # <<>>
    /\ reply # None

HasCard ==
    /\ resp.card # None
    /\ NonEmptyText(Val(resp.card).title)
    /\ NonEmptyText(Val(resp.card).text)

\* C8 as stated: the response to every event type, Session-ended and the
\* exception branch included, carries a card with a non-empty title and text.
C8_Original == ev.type # "none" => HasCard

\* C8, amended: the response of every handler but the Session-ended handler,
\* and of the exception branch, carries a card with a non-empty title and
\* text; the response of the Session-ended handler is empty, without a card.
C8_CardOnEveryReply ==
    /\ ev.type # "none" /\ ~(ev.type = "SessionEndedRequest" /\ branch = "handler") =>
           HasCard
    /\ ev.type = "SessionEndedRequest" /\ branch = "handler" => resp = EmptyResponse

\* The exception branch answering with a card.
C8_Witness ==
    /\ branch = "exception"
    /\ HasCard

\* C9: a response with spoken text that does not end the session carries a
\* re-prompt, and the responses to Decline and Cancel/Stop carry none.
C9_RepromptIffSessionContinues ==
    /\ resp.output_speech # None /\ resp.should_end_session # Some(TRUE) =>
           resp.reprompt # None /\ NonEmptyText(Val(resp.reprompt))
    /\ branch = "handler" /\ ev.type \in EndingEvents => resp.reprompt = None

\* An answered question, spoken with a re-prompt.
C9_Witness ==
    /\ IsQuestion
    /\ branch = "handler"
    /\ resp.output_speech # None
    /\ resp.reprompt # None

ProbeTexts == {<<>>, <<"t">>}

\* C10: when the Capability Prober reports false for the event's context the
\* Visual Response Builder returns nothing for every title and text and the
\* response holds no visual directive; a response holds a directive only
\* when the prober reports true, and then one.
C10_DirectiveOnlyWhenSupported ==
    ev.type # "none" =>
        /\ ~supports_apl(ev.ctx) =>
               /\ resp.directives = <<>>
               /\ \A t \in ProbeTexts, p \in ProbeTexts,
                     x \in {None} \cup {Some(y) : y \in ProbeTexts} :
                      create_apl_directive(ev.ctx, t, p, x) = None
        /\ resp.directives # <<>> =>
               supports_apl(ev.ctx) /\ Len(resp.directives) = 1

\* A question answered for a device whose context declares no interfaces.
C10_Witness ==
    /\ IsQuestion
    /\ branch = "handler"
    /\ ev.ctx = "no_interfaces"
    /\ ~supports_apl(ev.ctx)
    /\ resp.directives = <<>>

----------------------------------------------------------------------------
(* Properties, continued *)

MissingInterfaces == {"no_context", "no_system", "no_device", "no_interfaces"}

\* C11: for a context without the supported-interfaces field, or without an
\* object on the path to it, the Capability Prober reports false and raises
\* nothing: no directive is attached and no exception leaves the skill.
C11_ProberFalseOnMissingPath ==
    ev.type # "none" /\ ev.ctx \in MissingInterfaces =>
        /\ supports_apl(ev.ctx) = FALSE
        /\ resp.directives = <<>>
        /\ branch # "escaped"
        /\ ev.type \in {"AMAZON.YesIntent", "AMAZON.HelpIntent"} => branch = "handler"

\* A Help event from a request whose context has no device object.
C11_Witness ==
    /\ ev.type = "AMAZON.HelpIntent"
    /\ ev.ctx = "no_device"
    /\ branch = "handler"
    /\ resp.directives = <<>>

\* C12: a question event arriving in a session without the chat_history key
\* is handled as with an empty history: the request, when one is posted,
\* holds the system message and the question only, the handler answers, and
\* afterwards the key exists and holds exactly the new turn.
C12_QuestionWithoutKey ==
    IsQuestion /\ ~pre[ev.session].present =>
        /\ branch = "handler"
        /\ reply # None
        /\ attrs[ev.session].present
        /\ History(ev.session) = <<<<Val(ev.query), Val(reply)>>>>
        /\ \A r \in 1..Len(sent) :
               /\ Len(sent[r]) = 2
               /\ sent[r][1].role = "system"
               /\ sent[r][2] = [role |-> "user", content |-> Val(ev.query)]

\* A question answered by the service in a session that had no key.
C12_Witness ==
    /\ IsQuestion
    /\ ~pre[ev.session].present
    /\ Len(sent) = 1
    /\ ev.outcome.kind = "ok"
    /\ Len(History(ev.session)) = 1

FrameEvents ==
    {"AMAZON.YesIntent", "AMAZON.NoIntent", "AMAZON.HelpIntent",
     "AMAZON.FallbackIntent", "AMAZON.CancelIntent", "AMAZON.StopIntent",
     "SessionEndedRequest"}

\* C13: Affirm, Decline, Help, Fallback, Cancel/Stop and Session-ended events
\* leave the session attribute store as it was: the same turns in the same
\* order, and no key where there was none.
C13_OtherEventsLeaveStore ==
    ev.type \in FrameEvents => attrs = pre

\* A Decline event in a session without the key, which still has none.
C13_Witness ==
    /\ ev.type = "AMAZON.NoIntent"
    /\ ~pre[ev.session].present
    /\ ~attrs[ev.session].present

\* C14: when handling an event raises, the exception branch answers with the
\* generic apology, a re-prompt and end-session not true, and the session
\* attribute store is as it was before the event.
C14_ExceptionBranch ==
    branch = "exception" =>
        /\ resp.output_speech =
               Some(<<"<speak>",
                      "Sorry, I had trouble doing what you asked. Please try again.",
                      "</speak>">>)
        /\ resp.should_end_session # Some(TRUE)
        /\ resp.reprompt # None
        /\ attrs = pre

\* A question event without the query slot, in a session without the key.
C14_Witness ==
    /\ ev.type = "GptQueryIntent"
    /\ ev.query = None
    /\ branch = "exception"
    /\ ~attrs[ev.session].present

\* C15: when a visual directive is attached to a response, the title in the
\* visual document's data is the title of the card of that response.
C15_DirectiveTitleIsCardTitle ==
    resp.directives # <<>> /\ resp.card # None =>
        resp.directives[1].datasources[1].titleText = Val(resp.card).title

\* C16: the Capability Prober reports true only for a context whose
\* supported-interfaces set declares the APL capability; for one whose
\* supported-interfaces object declares none it reports false.
C16_ProberTrueOnlyWhenAplDeclared ==
    ev.type # "none" =>
        /\ supports_apl(ev.ctx) => ev.ctx = "interfaces_with_apl"
        /\ ev.ctx = "interfaces_without_apl" => resp.directives = <<>>

\* C17: a question event posts at most one request to the completion
\* service, whatever the service does, and every other event posts none.
C17_AtMostOneRequest ==
    /\ Len(sent) <= 1
    /\ ~IsQuestion => sent = <<>>

\* A question whose one request timed out.
C17_Witness ==
    /\ IsQuestion
    /\ ev.outcome.kind = "timeout"
    /\ Len(sent) = 1

\* C18: every event, whatever the completion call does, ends with one
\* response returned by its handler or by the exception handler, and no
\* exception leaves the skill; a failing completion call is answered by the
\* question handler itself.
C18_OneResponseNothingEscapes ==
    ev.type # "none" =>
        /\ branch \in {"handler", "exception"}
        /\ IsQuestion => branch = "handler" /\ resp.output_speech # None
        /\ branch = "exception" => resp.output_speech # None

\* A Session-ended event whose handler raised on the error details.
C18_Witness ==
    /\ ev.type = "SessionEndedRequest"
    /\ ev.error
    /\ branch = "exception"
    /\ resp.output_speech # None

\* C19: with the events of two sessions interleaved, the history of a
\* session is the log of its own question events since its own last Launch,
\* and an event of one session leaves the attribute store of the other as
\* it was and posts a request built from its own history only.
C19_SessionsAreIsolated ==
    /\ [](\A s \in DOMAIN attrs : History(s) = asked[s])
    /\ [][/\ \A s \in DOMAIN attrs : s # ev'.session => attrs'[s] = attrs[s]
          /\ \A r \in 1..Len(sent') :
                 SubSeq(sent'[r], 2, Len(sent'[r]) - 1) =
                     TurnMessages(LastN(attrs[ev'.session].chat_history, 5))]_vars

\* A Launch of session s2, which held turns, while session s1 keeps its own.
C19_Witness ==
    /\ DOMAIN attrs = {"s1", "s2"}
    /\ ev.session = "s2"
    /\ ev.type = "LaunchRequest"
    /\ HistoryBefore("s2") # <<>>
    /\ History("s1") # <<>>
    /\ History("s2") = <<>>

\* The response the last event gets from a voice-only device.
VoiceOnlyResponse ==
    LET voice == "no_interfaces"
    IN  IF branch = "exception" THEN CatchAllExceptionResponse(voice)
        ELSE IF ev.type = "LaunchRequest" THEN LaunchResponse(voice)
        ELSE IF ev.type = "GptQueryIntent"
        THEN GptQueryResponse(voice, Val(ev.query), Val(reply))
        ELSE IF ev.type = "AMAZON.YesIntent" THEN YesResponse(voice)
        ELSE IF ev.type = "AMAZON.NoIntent" THEN NoResponse(voice)
        ELSE IF ev.type = "AMAZON.HelpIntent" THEN HelpResponse(voice)
        ELSE IF ev.type = "AMAZON.FallbackIntent" THEN FallbackResponse(voice)
        ELSE IF ev.type \in {"AMAZON.CancelIntent", "AMAZON.StopIntent"}
        THEN CancelOrStopResponse(voice)
        ELSE SessionEndedResponse

\* C20: when the device supports APL and the directive builder fails, the
\* response is the one a voice-only device gets (speech, re-prompt,
\* end-session flag, card), without a directive, and nothing is raised.
C20_BuildFailureIsSoft ==
    ev.type # "none" /\ aplBuildFails /\ supports_apl(ev.ctx) =>
        /\ resp.directives = <<>>
        /\ resp = VoiceOnlyResponse
        /\ branch \in {"handler", "exception"}
        /\ ev.type = "LaunchRequest" => branch = "handler"

\* A Launch from an APL device whose directive could not be built.
C20_Witness ==
    /\ aplBuildFails
    /\ ev.type = "LaunchRequest"
    /\ ev.ctx = "interfaces_with_apl"
    /\ branch = "handler"
    /\ resp.output_speech # None
    /\ resp.directives = <<>>

----------------------------------------------------------------------------
(* Properties of degraded turns *)

ConnectionTroubleText == <<"I'm having trouble connecting right now. Please try again.">>
ProcessingErrorText == <<"I encountered an error processing your request.">>
DegradedTexts == {ConnectionTroubleText, ProcessingErrorText}

\* The assistant messages of a posted message list.
AssistantContents(m) ==
    {m[i].content : i \in {j \in 1..Len(m) : m[j].role = "assistant"}}

\* C21: a question event whose completion call fails softly (non-success
\* status, transport exception, timeout) appends exactly the turn (question,
\* degraded message) and leaves the session open with a re-prompt; and a
\* request posted by a later question event carries each degraded answer of
\* the last 5 turns as the assistant message of its turn, and no degraded
\* answer once its turn is older than the last 5.
C21_DegradedTurnIsKeptAndSent ==
    /\ IsQuestion /\ sent # <<>>
           /\ ev.outcome.kind \in {"http_error", "transport_exception", "timeout"} =>
           /\ branch = "handler"
           /\ History(ev.session) =
                  Append(HistoryBefore(ev.session),
                         <<Val(ev.query),
                           IF ev.outcome.kind = "http_error"
                           THEN ConnectionTroubleText ELSE ProcessingErrorText>>)
           /\ resp.should_end_session = Some(FALSE)
           /\ resp.reprompt # None
    /\ \A r \in 1..Len(sent) :
           LET h == HistoryBefore(ev.session)
               n == Min(Len(h), 5)
               m == sent[r]
           IN  /\ \A j \in 1..n :
                      h[Len(h) - n + j][2] \in DegradedTexts =>
                          /\ 2 * j + 1 <= Len(m)
                          /\ m[2 * j + 1] =
                                 [role |-> "assistant", content |-> h[Len(h) - n + j][2]]
               /\ \A d \in DegradedTexts :
                      d \in AssistantContents(m) =>
                          \E j \in 1..n : h[Len(h) - n + j][2] = d

\* A request posted 5 questions after a timeout: the processing-error reply,
\* now the oldest turn of the window, is its first assistant message.
C21_Witness ==
    /\ IsQuestion
    /\ Len(sent) = 1
    /\ LET h == HistoryBefore(ev.session)
       IN  /\ Len(h) = 5
           /\ h[1][2] = ProcessingErrorText
           /\ sent[1][3] = [role |-> "assistant", content |-> ProcessingErrorText]

====
